---- MODULE Spec2Model ----
(***************************************************************************)
(* Model of scipy/ndimage/fourier.py: the four public Fourier-domain       *)
(* filters (fourier_gaussian, fourier_uniform, fourier_ellipsoid,          *)
(* fourier_shift), the two output provisioners they use, and the helpers   *)
(* of _ni_support and kernels of _nd_image they call.                      *)
(*                                                                         *)
(* Memory is a heap: a sequence of arrays, an array's identity being its   *)
(* index.  The caller's arrays and the arguments of one call are drawn in  *)
(* Init; each public function is one action that runs the whole call.      *)
(***************************************************************************)
EXTENDS Integers, Sequences, FiniteSets, TLC

VARIABLES
    heap,          \* memory: Seq of [shape, dtype, data]; identity = index
    caller,        \* the heap as the caller built it, before the call
    args,          \* the arguments of the call: input, param, n, axis, output
    pc,            \* "ready" before the call, "done" after it
    fn,            \* the public function that was called ("none" before)
    status,        \* "ok" when the call returned, else the error it raised
    return_value,  \* what the call returned: None or an array identity
    provisioned,   \* the local `output` once provisioned (None before that)
    kernel_calls,  \* the invocations of the native kernel, in order
    trace          \* the steps of the call that were started, in order

vars == <<heap, caller, args, pc, fn, status, return_value, provisioned, kernel_calls, trace>>

----------------------------------------------------------------------------
(* Bounds of the checked instance *)

\* largest rank (ndim) of the input array; the ellipsoid kernel supports 1..3
MaxNdim == 4

\* extent of every axis of the input array
DimLen == 2

----------------------------------------------------------------------------
(* Values *)

\* Python's None as a return value; array identities are 1..Len(heap)
None == 0

\* numpy element types of the arrays the caller can build
DTypes == {"int32", "float32", "float64", "complex64", "complex128"}

\* type objects the caller can pass as `output`: numpy scalar types and the
\* Python builtin float (a type, but not one of numpy's scalar types)
TypeTokens == DTypes \cup {"float"}

\* values of `n`: negative (complex fft) or the length before a real fft
NVals == {-1, 4}

\* a Python number: an int or a float of value val
PyInt(v) == [kind |-> "int", val |-> v]
PyFloat(v) == [kind |-> "float", val |-> v]

ndim(a) == Len(a.shape)

\* numpy.zeros(shape, dtype): a fresh zero-filled array
zeros(shape, dtype) == [shape |-> shape, dtype |-> dtype, data |-> <<"zeros">>]

\* allocation: the new array gets the next identity
Alloc(h, a) == Append(h, a)
NewId(h) == Len(h) + 1

\* the result of a step that raised
Raised(e) == [err |-> e]

----------------------------------------------------------------------------
(* Output provisioning *)

\* the argument `output`: absent, a type object, or a pre-allocated array
OutNone == [tag |-> "none", type |-> "", id |-> None]
OutType(t) == [tag |-> "type", type |-> t, id |-> None]
OutArray(i) == [tag |-> "array", type |-> "", id |-> i]

\* a provisioning that succeeded: the heap after it, the buffer for the
\* kernel and the value the public function will return
Provided(h, out, rv) == [err |-> "ok", heap |-> h, output |-> out, return_value |-> rv]

\* Variants of the provisioners, each departing from the source in one way;
\* the properties below are checked to tell the source from them.
\*   keep, default, tokens: the input dtypes kept, the default dtype and the
\*   type objects accepted; checked: the shape of a given array is checked;
\*   given_rv: a given array is also returned; reuse: an absent output is
\*   replaced by the input array instead of a new one
ProvisionVariant(output, input, h, keep, default, tokens, checked, given_rv, reuse) ==
    IF output.tag = "none" THEN
        IF reuse
        THEN Provided(h, input, input)
        ELSE IF h[input].dtype \in keep
        THEN Provided(Alloc(h, zeros(h[input].shape, h[input].dtype)), NewId(h), NewId(h))
        ELSE Provided(Alloc(h, zeros(h[input].shape, default)), NewId(h), NewId(h))
    ELSE IF output.tag = "type" THEN
        IF output.type \notin tokens
        THEN Raised("output type not supported")
        ELSE Provided(Alloc(h, zeros(h[input].shape, output.type)), NewId(h), NewId(h))
    ELSE
        IF checked /\ h[output.id].shape # h[input].shape
        THEN Raised("output shape not correct")
        ELSE Provided(h, output.id, IF given_rv THEN output.id ELSE None)

RealKeep == {"complex64", "complex128", "float32"}
RealTokens == {"complex64", "complex128", "float32", "float64"}
ComplexTokens == {"complex64", "complex128"}

\* returns the caller's array as well as writing into it
_get_output_fourier_returns_given(output, input, h) ==
    ProvisionVariant(output, input, h, RealKeep, "float64", RealTokens, TRUE, TRUE, FALSE)

\* promotes a float32 input to float64
_get_output_fourier_no_float32(output, input, h) ==
    ProvisionVariant(output, input, h, ComplexTokens, "float64", RealTokens, TRUE, FALSE, FALSE)

\* accepts a given array of any shape
_get_output_fourier_any_shape(output, input, h) ==
    ProvisionVariant(output, input, h, RealKeep, "float64", RealTokens, FALSE, FALSE, FALSE)

\* filters in place when no output is given
_get_output_fourier_in_place(output, input, h) ==
    ProvisionVariant(output, input, h, RealKeep, "float64", RealTokens, TRUE, FALSE, TRUE)

\* the complex provisioner accepting a given array of any shape
_get_output_fourier_complex_any_shape(output, input, h) ==
    ProvisionVariant(output, input, h, ComplexTokens, "complex128", ComplexTokens, FALSE, FALSE, FALSE)

\* the complex provisioner accepting the real type objects too
_get_output_fourier_complex_real_tokens(output, input, h) ==
    ProvisionVariant(output, input, h, ComplexTokens, "complex128", RealTokens, TRUE, FALSE, FALSE)

\* _get_output_fourier(output, input): input is an array identity of heap h
_get_output_fourier(output, input, h) ==
    IF output.tag = "none" THEN
        IF h[input].dtype \in {"complex64", "complex128", "float32"}
        THEN Provided(Alloc(h, zeros(h[input].shape, h[input].dtype)), NewId(h), NewId(h))
        ELSE Provided(Alloc(h, zeros(h[input].shape, "float64")), NewId(h), NewId(h))
    ELSE IF output.tag = "type" THEN
        IF output.type \notin {"complex64", "complex128", "float32", "float64"}
        THEN Raised("output type not supported")
        ELSE Provided(Alloc(h, zeros(h[input].shape, output.type)), NewId(h), NewId(h))
    ELSE
        IF h[output.id].shape # h[input].shape
        THEN Raised("output shape not correct")
        ELSE Provided(h, output.id, None)

\* _get_output_fourier_complex(output, input)
_get_output_fourier_complex(output, input, h) ==
    IF output.tag = "none" THEN
        IF h[input].dtype \in {"complex64", "complex128"}
        THEN Provided(Alloc(h, zeros(h[input].shape, h[input].dtype)), NewId(h), NewId(h))
        ELSE Provided(Alloc(h, zeros(h[input].shape, "complex128")), NewId(h), NewId(h))
    ELSE IF output.tag = "type" THEN
        IF output.type \notin {"complex64", "complex128"}
        THEN Raised("output type not supported")
        ELSE Provided(Alloc(h, zeros(h[input].shape, output.type)), NewId(h), NewId(h))
    ELSE
        IF h[output.id].shape # h[input].shape
        THEN Raised("output shape not correct")
        ELSE Provided(h, output.id, None)

----------------------------------------------------------------------------
(* Parameter normalization: _ni_support *)

\* the filter parameter: a scalar, or a sequence of per-axis scalars
Scalar(p) == [tag |-> "scalar", items |-> <<p>>]
PerAxis(s) == [tag |-> "seq", items |-> s]

\* _ni_support._check_axis(axis, rank)
_check_axis(axis, rank) ==
    LET a == IF axis < 0 THEN axis + rank ELSE axis
    IN  IF a < 0 \/ a >= rank
        THEN Raised("AxisOutOfRange")
        ELSE [err |-> "ok", axis |-> a]

\* _ni_support._normalize_sequence(input, rank)
_normalize_sequence(input, rank) ==
    IF input.tag = "scalar"
    THEN [err |-> "ok", normalized |-> [i \in 1..rank |-> input.items[1]]]
    ELSE IF Len(input.items) # rank
         THEN Raised("LengthMismatch")
         ELSE [err |-> "ok", normalized |-> input.items]

\* numpy.asarray(seq, dtype = numpy.float64): every element becomes a 64-bit
\* float of the same value; an array built from a list is contiguous
asarray_float64(seq) ==
    [items |-> [i \in 1..Len(seq) |-> PyFloat(seq[i].val)], contiguous |-> TRUE]

\* seq.copy(): the same elements in a contiguous array
copy(arr) == [items |-> arr.items, contiguous |-> TRUE]

\* numpy.asarray(input) of an ndarray is that ndarray itself, not a copy
asarray(input) == input

----------------------------------------------------------------------------
(* Native kernels: _nd_image *)

\* the filter a kind selector of _nd_image.fourier_filter stands for
KindName(kind) ==
    CASE kind = 0 -> "gaussian"
      [] kind = 1 -> "uniform"
      [] kind = 2 -> "ellipsoid"

\* the kernel writes its result into `output`: the buffer's contents become
\* the input's contents with the filter applied
Written(h, input, output, what) ==
    [h EXCEPT ![output].data = Append(h[input].data, what)]

\* _nd_image.fourier_filter(input, parameters, n, axis, output, filter_type)
fourier_filter(h, input, parameters, n, axis, output, filter_type) ==
    IF filter_type = 2 /\ ndim(h[input]) > 3
    THEN [err |-> "UnsupportedRank", heap |-> h]
    ELSE [err |-> "ok", heap |-> Written(h, input, output, KindName(filter_type))]

\* _nd_image.fourier_shift(input, shifts, n, axis, output)
nd_image_fourier_shift(h, input, shifts, n, axis, output) ==
    [err |-> "ok", heap |-> Written(h, input, output, "shift")]

\* the record of one kernel invocation
FilterCall(input, parameters, n, axis, output, filter_type) ==
    [name |-> "fourier_filter", input |-> input, parameters |-> parameters,
     n |-> n, axis |-> axis, output |-> output, kind |-> <<filter_type>>]
ShiftCall(input, shifts, n, axis, output) ==
    [name |-> "fourier_shift", input |-> input, parameters |-> shifts,
     n |-> n, axis |-> axis, output |-> output, kind |-> <<>>]

----------------------------------------------------------------------------
(* The public functions *)

\* what one call did: the heap after it, "ok" or the error raised, the value
\* returned, the provisioned output, the kernel invocations and the steps started
Outcome(h, st, rv, out, kc, tr) ==
    [heap |-> h, status |-> st, return_value |-> rv, output |-> out,
     kernel_calls |-> kc, trace |-> tr]

\* Variants of the public functions, each departing from the source in one way

\* hands the kernel the axis as given, not the checked one
fourier_gaussian_call_raw_axis(h, a) ==
    LET input == asarray(a.input)
        prov == _get_output_fourier(a.output, input, h)
    IN  IF prov.err # "ok"
        THEN Outcome(h, prov.err, None, None, <<>>, <<"get_output">>)
        ELSE
    LET ax == _check_axis(a.axis, ndim(h[input]))
    IN  IF ax.err # "ok"
        THEN Outcome(prov.heap, ax.err, None, prov.output, <<>>, <<"get_output", "check_axis">>)
        ELSE
    LET nseq == _normalize_sequence(a.param, ndim(h[input]))
    IN  IF nseq.err # "ok"
        THEN Outcome(prov.heap, nseq.err, None, prov.output, <<>>,
                     <<"get_output", "check_axis", "normalize_sequence">>)
        ELSE
    LET arr == asarray_float64(nseq.normalized)
        sigmas == IF ~arr.contiguous THEN copy(arr) ELSE arr
        k == fourier_filter(prov.heap, input, sigmas.items, a.n, a.axis, prov.output, 0)
    IN  Outcome(k.heap, k.err, IF k.err = "ok" THEN prov.return_value ELSE None, prov.output,
                <<FilterCall(input, sigmas.items, a.n, a.axis, prov.output, 0)>>,
                <<"get_output", "check_axis", "normalize_sequence", "kernel">>)

\* hands the kernel the size as given, not the normalized one
fourier_uniform_call_raw_size(h, a) ==
    LET input == asarray(a.input)
        prov == _get_output_fourier(a.output, input, h)
    IN  IF prov.err # "ok"
        THEN Outcome(h, prov.err, None, None, <<>>, <<"get_output">>)
        ELSE
    LET ax == _check_axis(a.axis, ndim(h[input]))
    IN  IF ax.err # "ok"
        THEN Outcome(prov.heap, ax.err, None, prov.output, <<>>, <<"get_output", "check_axis">>)
        ELSE
    LET arr == asarray_float64(a.param.items)
        sizes == IF ~arr.contiguous THEN copy(arr) ELSE arr
        k == fourier_filter(prov.heap, input, sizes.items, a.n, ax.axis, prov.output, 1)
    IN  Outcome(k.heap, k.err, IF k.err = "ok" THEN prov.return_value ELSE None, prov.output,
                <<FilterCall(input, sizes.items, a.n, ax.axis, prov.output, 1)>>,
                <<"get_output", "check_axis", "normalize_sequence", "kernel">>)

\* selects the uniform filter
fourier_ellipsoid_call_uniform_kind(h, a) ==
    LET input == asarray(a.input)
        prov == _get_output_fourier(a.output, input, h)
    IN  IF prov.err # "ok"
        THEN Outcome(h, prov.err, None, None, <<>>, <<"get_output">>)
        ELSE
    LET ax == _check_axis(a.axis, ndim(h[input]))
    IN  IF ax.err # "ok"
        THEN Outcome(prov.heap, ax.err, None, prov.output, <<>>, <<"get_output", "check_axis">>)
        ELSE
    LET nseq == _normalize_sequence(a.param, ndim(h[input]))
    IN  IF nseq.err # "ok"
        THEN Outcome(prov.heap, nseq.err, None, prov.output, <<>>,
                     <<"get_output", "check_axis", "normalize_sequence">>)
        ELSE
    LET arr == asarray_float64(nseq.normalized)
        sizes == IF ~arr.contiguous THEN copy(arr) ELSE arr
        k == fourier_filter(prov.heap, input, sizes.items, a.n, ax.axis, prov.output, 1)
    IN  Outcome(k.heap, k.err, IF k.err = "ok" THEN prov.return_value ELSE None, prov.output,
                <<FilterCall(input, sizes.items, a.n, ax.axis, prov.output, 1)>>,
                <<"get_output", "check_axis", "normalize_sequence", "kernel">>)

\* normalizes the parameter and the axis before provisioning the output
fourier_shift_call_normalize_first(h, a) ==
    LET input == asarray(a.input)
        nseq == _normalize_sequence(a.param, ndim(h[input]))
    IN  IF nseq.err # "ok"
        THEN Outcome(h, nseq.err, None, None, <<>>, <<"normalize_sequence">>)
        ELSE
    LET ax == _check_axis(a.axis, ndim(h[input]))
    IN  IF ax.err # "ok"
        THEN Outcome(h, ax.err, None, None, <<>>, <<"normalize_sequence", "check_axis">>)
        ELSE
    LET prov == _get_output_fourier_complex(a.output, input, h)
    IN  IF prov.err # "ok"
        THEN Outcome(h, prov.err, None, None, <<>>,
                     <<"normalize_sequence", "check_axis", "get_output">>)
        ELSE
    LET arr == asarray_float64(nseq.normalized)
        shifts == IF ~arr.contiguous THEN copy(arr) ELSE arr
        k == nd_image_fourier_shift(prov.heap, input, shifts.items, a.n, ax.axis, prov.output)
    IN  Outcome(k.heap, k.err, IF k.err = "ok" THEN prov.return_value ELSE None, prov.output,
                <<ShiftCall(input, shifts.items, a.n, ax.axis, prov.output)>>,
                <<"normalize_sequence", "check_axis", "get_output", "kernel">>)

\* fourier_gaussian(input, sigma, n, axis, output) on heap h
fourier_gaussian_call(h, a) ==
    LET input == asarray(a.input)
        prov == _get_output_fourier(a.output, input, h)
    IN  IF prov.err # "ok"
        THEN Outcome(h, prov.err, None, None, <<>>, <<"get_output">>)
        ELSE
    LET ax == _check_axis(a.axis, ndim(h[input]))
    IN  IF ax.err # "ok"
        THEN Outcome(prov.heap, ax.err, None, prov.output, <<>>, <<"get_output", "check_axis">>)
        ELSE
    LET nseq == _normalize_sequence(a.param, ndim(h[input]))
    IN  IF nseq.err # "ok"
        THEN Outcome(prov.heap, nseq.err, None, prov.output, <<>>,
                     <<"get_output", "check_axis", "normalize_sequence">>)
        ELSE
    LET arr == asarray_float64(nseq.normalized)
        sigmas == IF ~arr.contiguous THEN copy(arr) ELSE arr
        k == fourier_filter(prov.heap, input, sigmas.items, a.n, ax.axis, prov.output, 0)
    IN  Outcome(k.heap, k.err, IF k.err = "ok" THEN prov.return_value ELSE None, prov.output,
                <<FilterCall(input, sigmas.items, a.n, ax.axis, prov.output, 0)>>,
                <<"get_output", "check_axis", "normalize_sequence", "kernel">>)

\* fourier_uniform(input, size, n, axis, output) on heap h
fourier_uniform_call(h, a) ==
    LET input == asarray(a.input)
        prov == _get_output_fourier(a.output, input, h)
    IN  IF prov.err # "ok"
        THEN Outcome(h, prov.err, None, None, <<>>, <<"get_output">>)
        ELSE
    LET ax == _check_axis(a.axis, ndim(h[input]))
    IN  IF ax.err # "ok"
        THEN Outcome(prov.heap, ax.err, None, prov.output, <<>>, <<"get_output", "check_axis">>)
        ELSE
    LET nseq == _normalize_sequence(a.param, ndim(h[input]))
    IN  IF nseq.err # "ok"
        THEN Outcome(prov.heap, nseq.err, None, prov.output, <<>>,
                     <<"get_output", "check_axis", "normalize_sequence">>)
        ELSE
    LET arr == asarray_float64(nseq.normalized)
        sizes == IF ~arr.contiguous THEN copy(arr) ELSE arr
        k == fourier_filter(prov.heap, input, sizes.items, a.n, ax.axis, prov.output, 1)
    IN  Outcome(k.heap, k.err, IF k.err = "ok" THEN prov.return_value ELSE None, prov.output,
                <<FilterCall(input, sizes.items, a.n, ax.axis, prov.output, 1)>>,
                <<"get_output", "check_axis", "normalize_sequence", "kernel">>)

\* fourier_ellipsoid(input, size, n, axis, output) on heap h
fourier_ellipsoid_call(h, a) ==
    LET input == asarray(a.input)
        prov == _get_output_fourier(a.output, input, h)
    IN  IF prov.err # "ok"
        THEN Outcome(h, prov.err, None, None, <<>>, <<"get_output">>)
        ELSE
    LET ax == _check_axis(a.axis, ndim(h[input]))
    IN  IF ax.err # "ok"
        THEN Outcome(prov.heap, ax.err, None, prov.output, <<>>, <<"get_output", "check_axis">>)
        ELSE
    LET nseq == _normalize_sequence(a.param, ndim(h[input]))
    IN  IF nseq.err # "ok"
        THEN Outcome(prov.heap, nseq.err, None, prov.output, <<>>,
                     <<"get_output", "check_axis", "normalize_sequence">>)
        ELSE
    LET arr == asarray_float64(nseq.normalized)
        sizes == IF ~arr.contiguous THEN copy(arr) ELSE arr
        k == fourier_filter(prov.heap, input, sizes.items, a.n, ax.axis, prov.output, 2)
    IN  Outcome(k.heap, k.err, IF k.err = "ok" THEN prov.return_value ELSE None, prov.output,
                <<FilterCall(input, sizes.items, a.n, ax.axis, prov.output, 2)>>,
                <<"get_output", "check_axis", "normalize_sequence", "kernel">>)

\* fourier_shift(input, shift, n, axis, output) on heap h
fourier_shift_call(h, a) ==
    LET input == asarray(a.input)
        prov == _get_output_fourier_complex(a.output, input, h)
    IN  IF prov.err # "ok"
        THEN Outcome(h, prov.err, None, None, <<>>, <<"get_output">>)
        ELSE
    LET ax == _check_axis(a.axis, ndim(h[input]))
    IN  IF ax.err # "ok"
        THEN Outcome(prov.heap, ax.err, None, prov.output, <<>>, <<"get_output", "check_axis">>)
        ELSE
    LET nseq == _normalize_sequence(a.param, ndim(h[input]))
    IN  IF nseq.err # "ok"
        THEN Outcome(prov.heap, nseq.err, None, prov.output, <<>>,
                     <<"get_output", "check_axis", "normalize_sequence">>)
        ELSE
    LET arr == asarray_float64(nseq.normalized)
        shifts == IF ~arr.contiguous THEN copy(arr) ELSE arr
        k == nd_image_fourier_shift(prov.heap, input, shifts.items, a.n, ax.axis, prov.output)
    IN  Outcome(k.heap, k.err, IF k.err = "ok" THEN prov.return_value ELSE None, prov.output,
                <<ShiftCall(input, shifts.items, a.n, ax.axis, prov.output)>>,
                <<"get_output", "check_axis", "normalize_sequence", "kernel">>)

\* the state after a call of public function f with outcome o
Called(f, o) ==
    /\ pc' = "done"
    /\ fn' = f
    /\ heap' = o.heap
    /\ status' = o.status
    /\ return_value' = o.return_value
    /\ provisioned' = o.output
    /\ kernel_calls' = o.kernel_calls
    /\ trace' = o.trace
    /\ UNCHANGED <<caller, args>>

fourier_gaussian ==
    /\ pc = "ready"
    /\ Called("fourier_gaussian", fourier_gaussian_call(heap, args))

fourier_uniform ==
    /\ pc = "ready"
    /\ Called("fourier_uniform", fourier_uniform_call(heap, args))

fourier_ellipsoid ==
    /\ pc = "ready"
    /\ Called("fourier_ellipsoid", fourier_ellipsoid_call(heap, args))

fourier_shift ==
    /\ pc = "ready"
    /\ Called("fourier_shift", fourier_shift_call(heap, args))


----------------------------------------------------------------------------
(* The calls that are checked *)

\* shapes of the input array: every rank 0..MaxNdim, every axis DimLen long
InputShapes == {[i \in 1..k |-> DimLen] : k \in 0..MaxNdim}

\* shapes of a second array of the caller, given the input's shape s: the
\* same shape, one with a longer last axis, one with an axis more, one with
\* an axis less
OtherShapes(s) ==
    {s, Append(s, DimLen)}
    \cup (IF Len(s) > 0
          THEN {[s EXCEPT ![Len(s)] = DimLen + 1], SubSeq(s, 1, Len(s) - 1)}
          ELSE {})

\* filter parameters for an input of rank r: scalars (an int, a float) and
\* sequences, of mixed ints and floats, of length r - 1, r and r + 1
Ramp(k) == [i \in 1..k |-> IF i % 2 = 1 THEN PyInt(i) ELSE PyFloat(i + 1)]
Params(r) ==
    {Scalar(PyInt(2)), Scalar(PyFloat(3))}
    \cup {PerAxis(Ramp(k)) : k \in {j \in {r - 1, r, r + 1} : j >= 0}}

\* axis arguments for an input of rank r: the valid range [-r, r) and one
\* value beyond it on each side
Axes(r) == (-r - 1)..r

\* the caller's heap and `output` argument: the input array is array 1; a
\* second array, when `output` is not the input itself, is array 2
Worlds ==
    LET inputs == {[shape |-> s, dtype |-> d, data |-> <<"input">>] :
                       s \in InputShapes, d \in DTypes}
    IN  UNION {
          {[heap |-> <<inp>>, output |-> o] :
               o \in {OutNone, OutArray(1)} \cup {OutType(t) : t \in TypeTokens}}
          \cup
          {[heap |-> <<inp, [shape |-> s, dtype |-> d, data |-> <<"output">>]>>,
            output |-> OutArray(2)] : s \in OtherShapes(inp.shape), d \in DTypes}
          : inp \in inputs}

Init ==
    /\ \E w \in Worlds :
          /\ heap = w.heap
          /\ caller = w.heap
          /\ \E p \in Params(ndim(w.heap[1])), n \in NVals, x \in Axes(ndim(w.heap[1])) :
                args = [input |-> 1, param |-> p, n |-> n, axis |-> x, output |-> w.output]
    /\ pc = "ready"
    /\ fn = "none"
    /\ status = "none"
    /\ return_value = None
    /\ provisioned = None
    /\ kernel_calls = <<>>
    /\ trace = <<>>

Next ==
    \/ fourier_gaussian
    \/ fourier_uniform
    \/ fourier_ellipsoid
    \/ fourier_shift

Spec == Init /\ [][Next]_vars

----------------------------------------------------------------------------
(* Vocabulary of the properties *)

Done == pc = "done"

\* the input array as the caller passed it, and its rank
In == caller[args.input]
Rank == ndim(In)

RealFilters == {"fourier_gaussian", "fourier_uniform", "fourier_ellipsoid"}
Complex == {"complex64", "complex128"}

\* the errors of the front end, before any kernel is invoked
FrontErrors ==
    {"output type not supported", "output shape not correct",
     "LengthMismatch", "AxisOutOfRange"}

\* validity of the arguments, each taken alone
OutputValid ==
    CASE args.output.tag = "none" -> TRUE
      [] args.output.tag = "type" ->
            args.output.type \in (IF fn = "fourier_shift"
                                  THEN Complex
                                  ELSE Complex \cup {"float32", "float64"})
      [] args.output.tag = "array" -> caller[args.output.id].shape = In.shape
AxisValid == -Rank <= args.axis /\ args.axis < Rank
ParamValid == args.param.tag = "scalar" \/ Len(args.param.items) = Rank

\* the arrays allocated by the call
Allocated == DOMAIN heap \ DOMAIN caller

\* Python's == on numbers compares values, whatever the kinds
PyEq(a, b) == a.val = b.val

IsPrefix(s, t) == Len(s) <= Len(t) /\ s = SubSeq(t, 1, Len(s))

----------------------------------------------------------------------------
(* Properties *)

\* C1: on every call that completes, an absent output or a type object makes
\* the call return a newly allocated array, which is the buffer the kernel
\* was handed; a pre-allocated array makes it return None, and the buffer the
\* kernel was handed is the caller's array.
C1_ReturnIsKernelBuffer ==
    (Done /\ status = "ok") =>
        /\ Len(kernel_calls) = 1
        /\ args.output.tag \in {"none", "type"} =>
              /\ return_value \in Allocated
              /\ kernel_calls[1].output = return_value
        /\ args.output.tag = "array" =>
              /\ return_value = None
              /\ kernel_calls[1].output = args.output.id

C1_Witness ==
    /\ Done /\ status = "ok"
    /\ args.output.tag = "array"
    /\ return_value = None
    /\ kernel_calls[1].output = args.output.id

\* C2: whenever provisioning succeeds, with either provisioner and any form of
\* output, the provisioned array has the input's shape; so has every buffer a
\* kernel is handed.
C2_OutputShapeIsInputShape ==
    Done =>
        /\ provisioned # None => heap[provisioned].shape = In.shape
        /\ \A i \in DOMAIN kernel_calls :
              heap[kernel_calls[i].output].shape = In.shape

C2_Witness ==
    /\ Done
    /\ fn = "fourier_shift"
    /\ args.output.tag = "array"
    /\ args.output.id # args.input
    /\ Len(kernel_calls) = 1
    /\ heap[kernel_calls[1].output].shape = In.shape

\* C3: in the Gaussian, uniform and ellipsoid filters an absent output gives a
\* new array of the input's dtype when that is complex64, complex128 or
\* float32 and of float64 otherwise; a type object among complex64,
\* complex128, float32, float64 gives a new array of that dtype; any other
\* type object makes the call fail as unsupported, without an array.
C3_RealProvisionerDtype ==
    (Done /\ fn \in RealFilters) =>
        /\ args.output.tag = "none" =>
              /\ provisioned \in Allocated
              /\ heap[provisioned].dtype =
                    (IF In.dtype \in {"complex64", "complex128", "float32"}
                     THEN In.dtype ELSE "float64")
        /\ (args.output.tag = "type"
              /\ args.output.type \in {"complex64", "complex128", "float32", "float64"}) =>
              /\ provisioned \in Allocated
              /\ heap[provisioned].dtype = args.output.type
        /\ (args.output.tag = "type"
              /\ args.output.type \notin {"complex64", "complex128", "float32", "float64"}) =>
              /\ status = "output type not supported"
              /\ return_value = None
              /\ provisioned = None
              /\ Allocated = {}

C3_Witness ==
    /\ Done /\ fn = "fourier_uniform"
    /\ args.output.tag = "none"
    /\ In.dtype = "float32"
    /\ status = "ok"
    /\ heap[return_value].dtype = "float32"

\* C4 as stated: every buffer the shift kernel is handed is complex64 or
\* complex128, whatever form output took.
C4_ShiftBufferAlwaysComplex ==
    (Done /\ fn = "fourier_shift") =>
        \A i \in DOMAIN kernel_calls :
            heap[kernel_calls[i].output].dtype \in Complex

\* C4 amended: in fourier_shift an absent output gives a new array of the
\* input's dtype when that is complex and of complex128 otherwise, a type
\* object other than complex64 and complex128 fails as unsupported, and so
\* with output absent or a type object the kernel's buffer is complex; a
\* pre-allocated array is checked for its shape only and is handed to the
\* kernel with whatever dtype it has.
C4_ShiftBufferComplexUnlessGiven ==
    (Done /\ fn = "fourier_shift") =>
        /\ args.output.tag = "none" =>
              /\ provisioned \in Allocated
              /\ heap[provisioned].dtype =
                    (IF In.dtype \in Complex THEN In.dtype ELSE "complex128")
        /\ (args.output.tag = "type" /\ args.output.type \in Complex) =>
              /\ provisioned \in Allocated
              /\ heap[provisioned].dtype = args.output.type
        /\ (args.output.tag = "type" /\ args.output.type \notin Complex) =>
              /\ status = "output type not supported"
              /\ kernel_calls = <<>>
        /\ args.output.tag # "array" =>
              \A i \in DOMAIN kernel_calls :
                  heap[kernel_calls[i].output].dtype \in Complex
        /\ args.output.tag = "array" =>
              \A i \in DOMAIN kernel_calls :
                  /\ kernel_calls[i].output = args.output.id
                  /\ heap[args.output.id].dtype = caller[args.output.id].dtype

C4_Witness ==
    /\ Done /\ fn = "fourier_shift"
    /\ args.output.tag = "none"
    /\ In.dtype = "float32"
    /\ Len(kernel_calls) = 1
    /\ heap[kernel_calls[1].output].dtype = "complex128"

\* C5: a call whose output is a pre-allocated array of another shape than the
\* input's fails with the shape error and leaves that array as it was.
C5_ShapeMismatchLeavesOutput ==
    (Done /\ args.output.tag = "array"
          /\ caller[args.output.id].shape # In.shape) =>
        /\ status = "output shape not correct"
        /\ heap[args.output.id] = caller[args.output.id]

C5_Witness ==
    /\ Done
    /\ args.output.tag = "array"
    /\ Len(caller[args.output.id].shape) = Rank
    /\ caller[args.output.id].shape # In.shape
    /\ status = "output shape not correct"

\* C6 as stated: after every call the input array is as it was before.
C6_InputNeverMutated ==
    Done => heap[args.input] = caller[args.input]

\* C6 amended: the input array is as it was before after every call whose
\* output is not the input array itself, and after every call that invoked no
\* kernel; a call given its input as output has the kernel write on it.
C6_InputMutatedOnlyAsOutput ==
    Done =>
        /\ (args.output # OutArray(args.input) \/ kernel_calls = <<>>) =>
              heap[args.input] = caller[args.input]
        /\ \A i \in DOMAIN kernel_calls :
              kernel_calls[i].output = args.input => args.output = OutArray(args.input)

C6_Witness ==
    /\ Done /\ status = "ok"
    /\ args.output.tag = "array"
    /\ args.output.id # args.input
    /\ heap[args.output.id] # caller[args.output.id]
    /\ heap[args.input] = caller[args.input]

\* C7 as stated: an axis in [-ndim, ndim) reaches the kernel as axis when
\* axis >= 0 and as ndim + axis when axis < 0; an axis outside it makes the
\* call fail with the axis error, whatever the other arguments are; the
\* kernel is never handed the axis as given.
C7_AxisErrorWhateverElse ==
    Done =>
        /\ AxisValid =>
              \A i \in DOMAIN kernel_calls :
                  kernel_calls[i].axis =
                      (IF args.axis >= 0 THEN args.axis ELSE Rank + args.axis)
        /\ ~AxisValid =>
              /\ status = "AxisOutOfRange"
              /\ kernel_calls = <<>>
        /\ \A i \in DOMAIN kernel_calls :
              0 <= kernel_calls[i].axis /\ kernel_calls[i].axis < Rank

\* C7 amended: an axis in [-ndim, ndim) reaches the kernel as axis when
\* axis >= 0 and as ndim + axis when axis < 0; an axis outside it makes the
\* call fail with the axis error when the output was provisioned, and with
\* the provisioning error (unsupported type, wrong shape) when it was not,
\* provisioning running first; either way no kernel is invoked, and the axis
\* a kernel is handed always lies in [0, ndim).
C7_AxisNormalized ==
    Done =>
        /\ (OutputValid /\ AxisValid) =>
              \A i \in DOMAIN kernel_calls :
                  kernel_calls[i].axis =
                      (IF args.axis >= 0 THEN args.axis ELSE Rank + args.axis)
        /\ (OutputValid /\ ~AxisValid) =>
              /\ status = "AxisOutOfRange"
              /\ kernel_calls = <<>>
        /\ (~OutputValid /\ ~AxisValid) =>
              /\ status = (IF args.output.tag = "type"
                           THEN "output type not supported"
                           ELSE "output shape not correct")
              /\ kernel_calls = <<>>
        /\ \A i \in DOMAIN kernel_calls :
              0 <= kernel_calls[i].axis /\ kernel_calls[i].axis < Rank

C7_Witness ==
    /\ Done /\ fn = "fourier_gaussian"
    /\ args.axis < 0
    /\ Rank >= 2
    /\ Len(kernel_calls) = 1
    /\ kernel_calls[1].axis = Rank + args.axis

\* C8 as stated: for ndim >= 1, a scalar parameter reaches the kernel as ndim
\* elements all equal to it, a sequence of length ndim with the same elements
\* in the same order, and a sequence of another length makes the call fail
\* with the length error, whatever the other arguments are; the parameters a
\* kernel is handed are always ndim long.
C8_LengthErrorWhateverElse ==
    (Done /\ Rank >= 1) =>
        /\ args.param.tag = "scalar" =>
              \A i \in DOMAIN kernel_calls :
                  /\ Len(kernel_calls[i].parameters) = Rank
                  /\ \A j \in 1..Rank :
                        PyEq(kernel_calls[i].parameters[j], args.param.items[1])
        /\ (args.param.tag = "seq" /\ Len(args.param.items) = Rank) =>
              \A i \in DOMAIN kernel_calls :
                  /\ Len(kernel_calls[i].parameters) = Rank
                  /\ \A j \in 1..Rank :
                        PyEq(kernel_calls[i].parameters[j], args.param.items[j])
        /\ (args.param.tag = "seq" /\ Len(args.param.items) # Rank) =>
              /\ status = "LengthMismatch"
              /\ kernel_calls = <<>>
        /\ \A i \in DOMAIN kernel_calls :
              Len(kernel_calls[i].parameters) = Rank

\* C8 amended: for ndim >= 1, a scalar parameter reaches the kernel as ndim
\* elements all equal to it and a sequence of length ndim with the same
\* elements in the same order; a sequence of another length makes the call
\* fail with the length error when the output was provisioned and the axis is
\* in range, with the axis error when the output was provisioned and the axis
\* is not, and with the provisioning error otherwise, those steps running
\* first; in each case no kernel is invoked, and the parameters a kernel is
\* handed are always ndim 64-bit floats.
C8_ParameterNormalized ==
    (Done /\ Rank >= 1) =>
        /\ (OutputValid /\ AxisValid /\ args.param.tag = "scalar") =>
              /\ Len(kernel_calls) = 1
              /\ Len(kernel_calls[1].parameters) = Rank
              /\ \A j \in 1..Rank :
                    PyEq(kernel_calls[1].parameters[j], args.param.items[1])
        /\ (OutputValid /\ AxisValid /\ args.param.tag = "seq"
              /\ Len(args.param.items) = Rank) =>
              /\ Len(kernel_calls) = 1
              /\ Len(kernel_calls[1].parameters) = Rank
              /\ \A j \in 1..Rank :
                    PyEq(kernel_calls[1].parameters[j], args.param.items[j])
        /\ (OutputValid /\ AxisValid /\ args.param.tag = "seq"
              /\ Len(args.param.items) # Rank) =>
              /\ status = "LengthMismatch"
              /\ kernel_calls = <<>>
        /\ (OutputValid /\ ~AxisValid /\ ~ParamValid) =>
              /\ status = "AxisOutOfRange"
              /\ kernel_calls = <<>>
        /\ (~OutputValid /\ ~ParamValid) =>
              /\ status = (IF args.output.tag = "type"
                           THEN "output type not supported"
                           ELSE "output shape not correct")
              /\ kernel_calls = <<>>
        /\ \A i \in DOMAIN kernel_calls :
              /\ Len(kernel_calls[i].parameters) = Rank
              /\ \A j \in 1..Rank : kernel_calls[i].parameters[j].kind = "float"

C8_Witness ==
    /\ Done /\ fn = "fourier_uniform"
    /\ Rank >= 2
    /\ args.param = Scalar(PyInt(2))
    /\ Len(kernel_calls) = 1
    /\ kernel_calls[1].parameters = [j \in 1..Rank |-> PyFloat(2)]

\* C9 as stated: the parameter is normalized first, then the axis, then the
\* output is provisioned; so a wrong-length parameter is reported whatever
\* else is wrong, an out-of-range axis whatever is wrong with the output, and
\* a call with an invalid parameter or axis allocates nothing.
C9_ParameterThenAxisThenOutput ==
    Done =>
        /\ ~ParamValid => status = "LengthMismatch"
        /\ (ParamValid /\ ~AxisValid) => status = "AxisOutOfRange"
        /\ (~ParamValid \/ ~AxisValid) => Allocated = {}

\* C9 amended: the steps run in the order provision the output, normalize the
\* axis, normalize the parameter, invoke the kernel, return; the error
\* reported is that of the earliest failing step in this order, and a call
\* with an invalid axis or parameter has allocated its output when output was
\* absent or a supported type object.
C9_OutputThenAxisThenParameter ==
    Done =>
        /\ IsPrefix(trace, <<"get_output", "check_axis", "normalize_sequence", "kernel">>)
        /\ ~OutputValid =>
              /\ status = (IF args.output.tag = "type"
                           THEN "output type not supported"
                           ELSE "output shape not correct")
              /\ Allocated = {}
        /\ (OutputValid /\ ~AxisValid) => status = "AxisOutOfRange"
        /\ (OutputValid /\ AxisValid /\ ~ParamValid) => status = "LengthMismatch"
        /\ (OutputValid /\ args.output.tag # "array") => Cardinality(Allocated) = 1

C9_Witness ==
    /\ Done /\ fn = "fourier_shift"
    /\ ~OutputValid /\ ~AxisValid /\ ~ParamValid
    /\ args.output.tag = "type"
    /\ status = "output type not supported"

\* C10: a call that fails in provisioning or normalization invokes no kernel;
\* a call that passes them invokes the kernel exactly once: fourier_filter
\* with selector 0 for fourier_gaussian, 1 for fourier_uniform, 2 for
\* fourier_ellipsoid, and fourier_shift without selector for fourier_shift,
\* with the caller's n; fourier_ellipsoid reaches the kernel at every rank.
C10_KernelDispatch ==
    Done =>
        /\ status \in FrontErrors => kernel_calls = <<>>
        /\ ~(OutputValid /\ AxisValid /\ ParamValid) => status \in FrontErrors
        /\ (OutputValid /\ AxisValid /\ ParamValid) =>
              /\ Len(kernel_calls) = 1
              /\ status \notin FrontErrors
              /\ kernel_calls[1].input = args.input
              /\ kernel_calls[1].n = args.n
              /\ kernel_calls[1].name =
                    (IF fn = "fourier_shift" THEN "fourier_shift" ELSE "fourier_filter")
              /\ kernel_calls[1].kind =
                    (CASE fn = "fourier_gaussian" -> <<0>>
                       [] fn = "fourier_uniform" -> <<1>>
                       [] fn = "fourier_ellipsoid" -> <<2>>
                       [] fn = "fourier_shift" -> <<>>)

C10_Witness ==
    /\ Done /\ fn = "fourier_ellipsoid"
    /\ Rank > 3
    /\ Len(kernel_calls) = 1
    /\ kernel_calls[1].kind = <<2>>
    /\ kernel_calls[1].n = 4

====
